---------------------------- MODULE Spec2Model ----------------------------
(***************************************************************************)
(* Model of kishlay_try.py: the RSI engine (calculate_rsi), the signal     *)
(* classifier (check_signals) and the polling loop of __main__.            *)
(*                                                                         *)
(* float64 values are modelled as exact rationals plus the two special     *)
(* values the code can produce, NaN and +/-infinity.  Closing prices are   *)
(* small integers, so every sum of gains or losses is exact in float64 as  *)
(* well; quotients are exact here and rounded in float64.                  *)
(*                                                                         *)
(* Python positions are 0-based, TLA+ sequences are 1-based: position i of *)
(* a pandas Series is element i+1 of the sequence that models it.          *)
(***************************************************************************)
EXTENDS Integers, Sequences, FiniteSets

VARIABLES
    pc,          \* position of the running code
    data,        \* the closing prices: argument data / column df["close"]
    window,      \* argument window of calculate_rsi
    avg_gain,    \* local avg_gain of calculate_rsi
    avg_loss,    \* local avg_loss of calculate_rsi
    rsi,         \* the Series calculate_rsi returns / column df["RSI"]
    raised,      \* the exception that ended the code, "none" if none
    latest_rsi,  \* latest_rsi of the loop / argument rsi of check_signals
    signal,      \* what check_signals returned ("None" for None)
    printed,     \* the signals printed so far, oldest first
    cycle        \* number of polling cycles started

vars == <<pc, data, window, avg_gain, avg_loss, rsi, raised,
          latest_rsi, signal, printed, cycle>>

(***************************************************************************)
(* Bounds of the model.                                                    *)
(***************************************************************************)
MaxLen == 5
PriceSpan == 4
MaxWindow == 3
MaxCycles == 2
PollLen == 3
PollSpan == 2

\* window=14, the default of calculate_rsi, the one the polling loop uses
DefaultWindow == 14

\* closing prices 9 .. 9+PriceSpan
Prices == 9..(9 + PriceSpan)

Windows == (1..MaxWindow) \cup {DefaultWindow}

\* closing prices 9 .. 9+PollSpan of the polling loop
PollPrices == 9..(9 + PollSpan)

\* the series of at most n closes drawn from P, the empty one included
RECURSIVE SeqsUpTo(_, _)
SeqsUpTo(n, P) ==
    IF n = 0 THEN {<<>>}
    ELSE LET shorter == SeqsUpTo(n - 1, P)
         IN shorter \cup {Append(s, p) : s \in {t \in shorter : Len(t) = n - 1}, p \in P}

PriceSeries == SeqsUpTo(MaxLen, Prices)

\* what get_klines can hand to the loop (data_limit candles in the program)
FetchedSeries == SeqsUpTo(PollLen, PollPrices)

(***************************************************************************)
(* float64 arithmetic, as far as the program uses it.                      *)
(***************************************************************************)
Abs(x) == IF x < 0 THEN -x ELSE x

RECURSIVE GCD(_, _)
GCD(a, b) == IF b = 0 THEN a ELSE GCD(b, a % b)

\* the finite value n/d (d # 0), in lowest terms with a positive denominator
Num(n, d) ==
    LET g == GCD(Abs(n), Abs(d))
        s == IF d < 0 THEN -1 ELSE 1
    IN [k |-> "num", n |-> (s * n) \div g, d |-> (s * d) \div g]

NaN == [k |-> "nan", n |-> 0, d |-> 1]
Inf == [k |-> "inf", n |-> 1, d |-> 1]
NegInf == [k |-> "inf", n |-> -1, d |-> 1]

IsNaN(v) == v.k = "nan"

Sign(x) == IF x < 0 THEN -1 ELSE IF x > 0 THEN 1 ELSE 0

FNeg(a) ==
    IF a.k = "nan" THEN NaN
    ELSE IF a.k = "inf" THEN (IF a.n > 0 THEN NegInf ELSE Inf)
    ELSE Num(-a.n, a.d)

FAdd(a, b) ==
    IF a.k = "nan" \/ b.k = "nan" THEN NaN
    ELSE IF a.k = "inf" /\ b.k = "inf" THEN (IF a.n = b.n THEN a ELSE NaN)
    ELSE IF a.k = "inf" THEN a
    ELSE IF b.k = "inf" THEN b
    ELSE Num(a.n * b.d + b.n * a.d, a.d * b.d)

FSub(a, b) == FAdd(a, FNeg(b))

\* numpy/pandas float division: x/0 is +/-inf, 0/0 is nan, no exception
FDiv(a, b) ==
    IF a.k = "nan" \/ b.k = "nan" THEN NaN
    ELSE IF a.k = "inf" /\ b.k = "inf" THEN NaN
    ELSE IF a.k = "inf" THEN (IF Sign(b.n) < 0 THEN FNeg(a) ELSE a)
    ELSE IF b.k = "inf" THEN Num(0, 1)
    ELSE IF b.n = 0 THEN (IF a.n = 0 THEN NaN ELSE IF a.n > 0 THEN Inf ELSE NegInf)
    ELSE Num(a.n * b.d, a.d * b.n)

\* comparisons: every comparison with NaN is False
FLt(a, b) ==
    IF a.k = "nan" \/ b.k = "nan" THEN FALSE
    ELSE IF a.k = "inf" THEN a.n < 0 /\ ~(b.k = "inf" /\ b.n < 0)
    ELSE IF b.k = "inf" THEN b.n > 0
    ELSE a.n * b.d < b.n * a.d

FGt(a, b) == FLt(b, a)

FLe(a, b) ==
    IF a.k = "nan" \/ b.k = "nan" THEN FALSE
    ELSE ~FLt(b, a)

FGe(a, b) == FLe(b, a)

(***************************************************************************)
(* calculate_rsi                                                           *)
(***************************************************************************)
\* variant: delta = data.diff().dropna(), the undefined head dropped
diff_dropna(s) ==
    [j \in 1..(Len(s) - 1) |-> Num(s[j + 1] - s[j], 1)]

\* delta = data.diff(): NaN at position 0, data[i] - data[i-1] after it
diff(s) ==
    [j \in 1..Len(s) |-> IF j = 1 THEN NaN ELSE Num(s[j] - s[j - 1], 1)]

\* gain = np.where(delta > 0, delta, 0)
gain_of(delta) ==
    [j \in 1..Len(delta) |-> IF FGt(delta[j], Num(0, 1)) THEN delta[j] ELSE Num(0, 1)]

\* loss = np.where(delta < 0, -delta, 0)
loss_of(delta) ==
    [j \in 1..Len(delta) |-> IF FLt(delta[j], Num(0, 1)) THEN FNeg(delta[j]) ELSE Num(0, 1)]

RECURSIVE SumRange(_, _, _)
SumRange(s, lo, hi) ==
    IF lo > hi THEN Num(0, 1) ELSE FAdd(SumRange(s, lo, hi - 1), s[hi])

\* variant: rolling(window=w).mean() without min_periods=1, undefined until
\* the window is full
rolling_mean_full_window(s, w) ==
    [j \in 1..Len(s) |->
        IF j < w THEN NaN ELSE FDiv(SumRange(s, j - w + 1, j), Num(w, 1))]

\* pd.Series(s).rolling(window=w, min_periods=1).mean(): the mean of the
\* elements of s at the trailing w positions that exist
rolling_mean(s, w) ==
    [j \in 1..Len(s) |->
        LET lo == IF j - w + 1 < 1 THEN 1 ELSE j - w + 1
        IN FDiv(SumRange(s, lo, j), Num(j - lo + 1, 1))]

\* variant: the quotient taken the other way round
rs_of_swapped(ag, al) == [j \in 1..Len(ag) |-> FDiv(al[j], ag[j])]

\* rs = avg_gain / avg_loss
rs_of(ag, al) == [j \in 1..Len(ag) |-> FDiv(ag[j], al[j])]

\* variant: the leading "100 -" left out
rsi_of_flipped(rs) ==
    [j \in 1..Len(rs) |-> FDiv(Num(100, 1), FAdd(Num(1, 1), rs[j]))]

\* rsi = 100 - (100 / (1 + rs))
rsi_of(rs) ==
    [j \in 1..Len(rs) |-> FSub(Num(100, 1), FDiv(Num(100, 1), FAdd(Num(1, 1), rs[j])))]

calculate_rsi(s, w) ==
    rsi_of(rs_of(rolling_mean(gain_of(diff(s)), w), rolling_mean(loss_of(diff(s)), w)))

(***************************************************************************)
(* check_signals                                                           *)
(***************************************************************************)
\* variant: the rsi <= 20 test moved in front of the rsi <= 40 test
check_signals_reordered(r) ==
    IF FGe(r, Num(80, 1)) THEN "Overbought_StopBuying"
    ELSE IF FLe(r, Num(20, 1)) THEN "OversoldBuy"
    ELSE IF FLe(r, Num(40, 1)) THEN "ExitShort"
    ELSE IF FGe(r, Num(60, 1)) THEN "LockProfits"
    ELSE "None"

\* variant: rsi <= 40 written as not (rsi > 40), which is True for NaN
check_signals_negated(r) ==
    IF FGe(r, Num(80, 1)) THEN "Overbought_StopBuying"
    ELSE IF ~FGt(r, Num(40, 1)) THEN "ExitShort"
    ELSE IF FLe(r, Num(20, 1)) THEN "OversoldBuy"
    ELSE IF FGe(r, Num(60, 1)) THEN "LockProfits"
    ELSE "None"

\* if rsi >= 80 / elif rsi <= 40 / elif rsi <= 20 / elif rsi >= 60 / None
check_signals(r) ==
    IF FGe(r, Num(80, 1)) THEN "Overbought_StopBuying"
    ELSE IF FLe(r, Num(40, 1)) THEN "ExitShort"
    ELSE IF FLe(r, Num(20, 1)) THEN "OversoldBuy"
    ELSE IF FGe(r, Num(60, 1)) THEN "LockProfits"
    ELSE "None"

(***************************************************************************)
(* The RSI engine as a function call: Init draws the arguments, the action *)
(* CalculateRsi runs the whole body of calculate_rsi.                      *)
(***************************************************************************)
InitRsi ==
    /\ pc = "call"
    /\ data \in PriceSeries
    /\ window \in Windows
    /\ avg_gain = <<>>
    /\ avg_loss = <<>>
    /\ rsi = <<>>
    /\ raised = "none"
    /\ latest_rsi = NaN
    /\ signal = "None"
    /\ printed = <<>>
    /\ cycle = 0

CalculateRsi ==
    /\ pc = "call"
    /\ avg_gain' = rolling_mean(gain_of(diff(data)), window)
    /\ avg_loss' = rolling_mean(loss_of(diff(data)), window)
    /\ rsi' = calculate_rsi(data, window)
    /\ raised' = "none"
    /\ pc' = "returned"
    /\ UNCHANGED <<data, window, latest_rsi, signal, printed, cycle>>

NextRsi == CalculateRsi

SpecRsi == InitRsi /\ [][NextRsi]_vars

(***************************************************************************)
(* The classifier as a function call.                                      *)
(***************************************************************************)
\* RSI arguments: -5.0, -4.9, ..., 105.0, nan, inf, -inf
RsiInputs == {Num(t, 10) : t \in (-50)..1050} \cup {NaN, Inf, NegInf}

InitClassify ==
    /\ pc = "call"
    /\ latest_rsi \in RsiInputs
    /\ data = <<>>
    /\ window = DefaultWindow
    /\ avg_gain = <<>>
    /\ avg_loss = <<>>
    /\ rsi = <<>>
    /\ raised = "none"
    /\ signal = "None"
    /\ printed = <<>>
    /\ cycle = 0

CheckSignals ==
    /\ pc = "call"
    /\ signal' = check_signals(latest_rsi)
    /\ pc' = "returned"
    /\ UNCHANGED <<data, window, avg_gain, avg_loss, rsi, raised, latest_rsi, printed, cycle>>

NextClassify == CheckSignals

SpecClassify == InitClassify /\ [][NextClassify]_vars

(***************************************************************************)
(* The polling loop of __main__.                                           *)
(***************************************************************************)
Init ==
    /\ pc = "fetch"
    /\ data = <<>>
    /\ window = DefaultWindow
    /\ avg_gain = <<>>
    /\ avg_loss = <<>>
    /\ rsi = <<>>
    /\ raised = "none"
    /\ latest_rsi = NaN
    /\ signal = "None"
    /\ printed = <<>>
    /\ cycle = 0

\* what get_klines can raise: requests.get (ConnectionError, Timeout), and
\* ValueError from response.json() on a body that is not JSON, from
\* pd.DataFrame on rows without the 12 columns and from astype(float) on a
\* close that is no number
FetchErrors == {"ConnectionError", "Timeout", "ValueError"}

\* df = get_klines(symbol, interval, data_limit): either the frame is
\* returned, or get_klines raises; except KeyboardInterrupt does not catch
\* the exception, which ends the program in the fetch step
Fetch ==
    /\ pc = "fetch"
    /\ cycle < MaxCycles
    /\ cycle' = cycle + 1
    /\ \/ /\ data' \in FetchedSeries
          /\ pc' = "compute"
          /\ UNCHANGED raised
       \/ /\ raised' \in FetchErrors
          /\ pc' = "crashed"
          /\ UNCHANGED data
    /\ UNCHANGED <<window, avg_gain, avg_loss, rsi, latest_rsi, signal, printed>>

\* df["RSI"] = calculate_rsi(df["close"])
Compute ==
    /\ pc = "compute"
    /\ avg_gain' = rolling_mean(gain_of(diff(data)), window)
    /\ avg_loss' = rolling_mean(loss_of(diff(data)), window)
    /\ rsi' = calculate_rsi(data, window)
    /\ pc' = "latest"
    /\ UNCHANGED <<data, window, raised, latest_rsi, signal, printed, cycle>>

\* latest_rsi = df["RSI"].iloc[-1]: IndexError on an empty frame, which the
\* except KeyboardInterrupt clause does not catch
Latest ==
    /\ pc = "latest"
    /\ IF Len(rsi) = 0
       THEN /\ raised' = "IndexError"
            /\ pc' = "crashed"
            /\ UNCHANGED latest_rsi
       ELSE /\ latest_rsi' = rsi[Len(rsi)]
            /\ pc' = "classify"
            /\ UNCHANGED raised
    /\ UNCHANGED <<data, window, avg_gain, avg_loss, rsi, signal, printed, cycle>>

\* signal = check_signals(latest_rsi, latest_close)
Classify ==
    /\ pc = "classify"
    /\ signal' = check_signals(latest_rsi)
    /\ pc' = "emit"
    /\ UNCHANGED <<data, window, avg_gain, avg_loss, rsi, raised, latest_rsi, printed, cycle>>

\* variant: edge-triggered, a signal equal to the last printed one is dropped
Emit_edge_triggered ==
    /\ pc = "emit"
    /\ printed' = IF signal # "None" /\ (printed = <<>> \/ printed[Len(printed)] # signal)
                  THEN Append(printed, signal) ELSE printed
    /\ pc' = "wait"
    /\ UNCHANGED <<data, window, avg_gain, avg_loss, rsi, raised, latest_rsi, signal, cycle>>

\* if signal: print(signal)
Emit ==
    /\ pc = "emit"
    /\ printed' = IF signal # "None" THEN Append(printed, signal) ELSE printed
    /\ pc' = "wait"
    /\ UNCHANGED <<data, window, avg_gain, avg_loss, rsi, raised, latest_rsi, signal, cycle>>

\* time.sleep(1), then the next iteration of while True
Wait ==
    /\ pc = "wait"
    /\ pc' = "fetch"
    /\ UNCHANGED <<data, window, avg_gain, avg_loss, rsi, raised, latest_rsi, signal, printed, cycle>>

\* Ctrl+C: except KeyboardInterrupt ends the program
Interrupt ==
    /\ pc \in {"fetch", "compute", "latest", "classify", "emit", "wait"}
    /\ raised' = "KeyboardInterrupt"
    /\ pc' = "stopped"
    /\ UNCHANGED <<data, window, avg_gain, avg_loss, rsi, latest_rsi, signal, printed, cycle>>

Next == Fetch \/ Compute \/ Latest \/ Classify \/ Emit \/ Wait \/ Interrupt

Spec == Init /\ [][Next]_vars

(***************************************************************************)
(* Properties.  Helpers below are stated on the integer closing prices and *)
(* on numerators and denominators, not through the operators above.        *)
(***************************************************************************)
Min(a, b) == IF a < b THEN a ELSE b

Example == <<10, 12, 11, 13, 9>>

\* delta at the 0-based position i >= 1 of the closes s
DeltaAt(s, i) == s[i + 1] - s[i]

\* sum of the gains of the deltas at the 0-based positions lo..hi
RECURSIVE GainSum(_, _, _)
GainSum(s, lo, hi) ==
    IF lo > hi THEN 0
    ELSE GainSum(s, lo, hi - 1) + (IF DeltaAt(s, hi) > 0 THEN DeltaAt(s, hi) ELSE 0)

\* sum of the losses of the deltas at the 0-based positions lo..hi
RECURSIVE LossSum(_, _, _)
LossSum(s, lo, hi) ==
    IF lo > hi THEN 0
    ELSE LossSum(s, lo, hi - 1) + (IF DeltaAt(s, hi) < 0 THEN -DeltaAt(s, hi) ELSE 0)

\* G and L of the trailing min(i, w) deltas that end at the 0-based position i
TrailG(s, i, w) == GainSum(s, i - Min(i, w) + 1, i)
TrailL(s, i, w) == LossSum(s, i - Min(i, w) + 1, i)

StrictlyIncreasing(s) == \A j \in 2..Len(s) : s[j] > s[j - 1]
StrictlyDecreasing(s) == \A j \in 2..Len(s) : s[j] < s[j - 1]

\* the priority table of the classifier, first matching row
PriorityTable(r) ==
    IF r.k = "nan" THEN "None"
    ELSE IF r.k = "inf" THEN (IF r.n > 0 THEN "Overbought_StopBuying" ELSE "ExitShort")
    ELSE IF r.n >= 80 * r.d THEN "Overbought_StopBuying"
    ELSE IF r.n <= 40 * r.d THEN "ExitShort"
    ELSE IF r.n <= 20 * r.d THEN "OversoldBuy"
    ELSE IF r.n >= 60 * r.d THEN "LockProfits"
    ELSE "None"

\* C1: check_signals returns the signal of the first matching row of the
\* priority table (>= 80, <= 40, <= 20, >= 60, None); so 20.0, 19.9 and 40.0
\* give ExitShort, 85.0 Overbought_StopBuying, 65.0 LockProfits, 50.0 None,
\* and OversoldBuy is returned for no value.
C1_FirstMatchWins ==
    pc = "returned" =>
        /\ signal = PriorityTable(latest_rsi)
        /\ signal # "OversoldBuy"
        /\ (latest_rsi.k = "num" /\ latest_rsi.n <= 20 * latest_rsi.d) => signal = "ExitShort"
        /\ latest_rsi = Num(85, 1) => signal = "Overbought_StopBuying"
        /\ latest_rsi = Num(20, 1) => signal = "ExitShort"
        /\ latest_rsi = Num(199, 10) => signal = "ExitShort"
        /\ latest_rsi = Num(65, 1) => signal = "LockProfits"
        /\ latest_rsi = Num(50, 1) => signal = "None"
        /\ latest_rsi = Num(40, 1) => signal = "ExitShort"

C1_Witness ==
    pc = "returned" /\ latest_rsi = Num(199, 10) /\ signal = "ExitShort"

\* C2: at every position i >= 1 where the average gain and the average loss
\* are both 0 (every position of a constant series), calculate_rsi returns 50,
\* never NaN.
C2_NeutralOnZeroOverZero ==
    pc = "returned" =>
        \A j \in 2..Len(rsi) :
            (avg_gain[j] = Num(0, 1) /\ avg_loss[j] = Num(0, 1)) => rsi[j] = Num(50, 1)

\* C3: every value calculate_rsi returns at a position i >= 1 is a defined
\* number in the closed range [0, 100].
C3_DefinedInRange ==
    pc = "returned" =>
        \A j \in 2..Len(rsi) :
            /\ rsi[j].k = "num"
            /\ 0 <= rsi[j].n
            /\ rsi[j].n <= 100 * rsi[j].d

\* C4: calculate_rsi on a series of length 0 ends with an InsufficientHistory
\* error and returns no series.
C4_EmptyRejected ==
    (pc = "returned" /\ Len(data) = 0) => raised = "InsufficientHistory"

\* C5: for a series of length n >= 1 calculate_rsi returns exactly n values,
\* and the value at index 0 is undefined (NaN).
C5_AlignedUndefinedHead ==
    (pc = "returned" /\ Len(data) >= 1) =>
        /\ Len(rsi) = Len(data)
        /\ IsNaN(rsi[1])

C5_Witness ==
    pc = "returned" /\ Len(data) = 1 /\ Len(rsi) = 1 /\ IsNaN(rsi[1])

\* C6: on a strictly increasing series of length >= 2 calculate_rsi returns
\* 100 at every position i >= 1, on a strictly decreasing one it returns 0.
C6_MonotoneExtremes ==
    (pc = "returned" /\ Len(data) >= 2) =>
        /\ StrictlyIncreasing(data) => \A j \in 2..Len(rsi) : rsi[j] = Num(100, 1)
        /\ StrictlyDecreasing(data) => \A j \in 2..Len(rsi) : rsi[j] = Num(0, 1)

C6_Witness ==
    /\ pc = "returned"
    /\ data = <<9, 10, 11, 12, 13>>
    /\ window = 2
    /\ \A j \in 2..5 : rsi[j] = Num(100, 1)

\* C7 as claimed: avg_gain[i] and avg_loss[i] are the sums of the gains and
\* losses of the trailing min(i, window) deltas divided by min(i, window).
C7_DivisorIsDeltaCount ==
    pc = "returned" =>
        \A j \in 2..Len(data) :
            LET i == j - 1
                m == Min(i, window)
            IN /\ avg_gain[j] = Num(TrailG(data, i, window), m)
               /\ avg_loss[j] = Num(TrailL(data, i, window), m)

\* C7 amended: avg_gain[i] and avg_loss[i] are the sums of the gains and
\* losses of the trailing min(i, window) deltas divided by min(i + 1, window):
\* for i < window the entry at index 0, where gain and loss are 0, is counted
\* as a sample.
C7_DivisorCountsIndex0 ==
    pc = "returned" =>
        /\ Len(avg_gain) = Len(data)
        /\ Len(avg_loss) = Len(data)
        /\ \A j \in 2..Len(data) :
            LET i == j - 1
                m == Min(i + 1, window)
            IN /\ avg_gain[j] = Num(TrailG(data, i, window), m)
               /\ avg_loss[j] = Num(TrailL(data, i, window), m)

C7_Witness ==
    /\ pc = "returned"
    /\ data = Example
    /\ window = DefaultWindow
    /\ avg_gain[5] = Num(4, 5)
    /\ avg_loss[5] = Num(5, 5)

\* C8: where the trailing min(i, window) deltas are not all zero, the value
\* returned equals 100 * G / (G + L) for the sums G and L of their gains and
\* losses; for [10, 12, 11, 13, 9] with window 14 the last value is 100*4/9,
\* strictly between 0 and 100.
C8_RatioOfSums ==
    pc = "returned" =>
        /\ \A j \in 2..Len(data) :
            LET G == TrailG(data, j - 1, window)
                L == TrailL(data, j - 1, window)
            IN G + L > 0 => rsi[j] = Num(100 * G, G + L)
        /\ (data = Example /\ window = DefaultWindow) =>
            /\ rsi[5] = Num(400, 9)
            /\ 0 < rsi[5].n
            /\ rsi[5].n < 100 * rsi[5].d

C8_Witness ==
    /\ pc = "returned"
    /\ data = Example
    /\ window = DefaultWindow
    /\ rsi[5] = Num(400, 9)

Ended == {"stopped", "crashed"}

\* the signal of the latest RSI of the closes s
SignalOf(s) == check_signals(calculate_rsi(s, DefaultWindow)[Len(s)])

\* C9: a cycle runs fetch, compute, classify, emit, wait in this order, and
\* the emit step prints exactly when the classifier applied to the last RSI of
\* this cycle's series returns a signal, whatever was printed before; the same
\* signal is printed again in consecutive cycles.
C9_CycleStep ==
    /\ (pc = "fetch" /\ pc' \notin Ended) => pc' = "compute"
    /\ (pc = "compute" /\ pc' \notin Ended) => pc' = "latest"
    /\ (pc = "latest" /\ pc' \notin Ended) => pc' = "classify"
    /\ (pc = "classify" /\ pc' \notin Ended) => pc' = "emit"
    /\ (pc = "emit" /\ pc' \notin Ended) => pc' = "wait"
    /\ (pc = "wait" /\ pc' \notin Ended) => pc' = "fetch"
    /\ printed' # printed => (pc = "emit" /\ pc' = "wait")
    /\ (pc = "emit" /\ pc' = "wait") =>
          printed' = IF SignalOf(data) # "None"
                     THEN Append(printed, SignalOf(data))
                     ELSE printed

C9_EveryCycleIndependent == [][C9_CycleStep]_vars

C9_Witness ==
    /\ pc = "wait"
    /\ cycle = 2
    /\ Len(printed) = 2
    /\ printed[1] = printed[2]
    /\ printed[2] = signal

\* C10: an undefined latest RSI (a single-sample series, or all deltas of the
\* trailing window zero) makes check_signals return None, nothing is printed
\* in that cycle and the loop goes on to the next cycle.
C10_NaNStep ==
    /\ (pc = "classify" /\ (Len(data) = 1 \/ TrailG(data, Len(data) - 1, window)
                                            + TrailL(data, Len(data) - 1, window) = 0))
          => IsNaN(latest_rsi)
    /\ (pc = "classify" /\ IsNaN(latest_rsi) /\ pc' \notin Ended) =>
          (signal' = "None" /\ pc' = "emit")
    /\ (pc = "emit" /\ IsNaN(latest_rsi) /\ pc' \notin Ended) =>
          (printed' = printed /\ pc' = "wait")
    /\ (pc = "wait" /\ IsNaN(latest_rsi) /\ pc' \notin Ended) => pc' = "fetch"

C10_UndefinedRsiIsSilent == [][C10_NaNStep]_vars

C10_Witness ==
    /\ pc = "compute"
    /\ cycle = 2
    /\ IsNaN(latest_rsi)
    /\ signal = "None"
    /\ printed = <<>>

=============================================================================
